---- MODULE Spec2Model ----
(***************************************************************************)
(* Model of two Kolibri view components:                                   *)
(*   - the class-creation modal                                            *)
(*     (management/.../manage-class-page/class-create-modal.vue)           *)
(*   - the coach item-list report page                                     *)
(*     (coach/.../reports/item-list-page.vue)                              *)
(*                                                                         *)
(* Strings are sequences of one-character strings, so that trimming and    *)
(* upper-casing are computed character by character.                       *)
(***************************************************************************)
EXTENDS Integers, Sequences, FiniteSets, TLC

VARIABLES
    raw,            \* the text the user typed last into the text box
    name,           \* data().name: the draft name (v-model.trim)
    classes,        \* props.classes: sequence of classroom records [name |-> s]
    invalid,        \* the :invalid prop handed to core-textbox at the last render
    createCalls,    \* arguments of the createClass calls issued by the modal
    displayCalls,   \* arguments of the displayModal calls issued by the modal
    applied,        \* how many createClass calls the store has carried out
    event,          \* the event handled last
    classId,        \* getter classId: state.classId
    pageState,      \* getter pageState: state.pageState
    row,            \* the report row rendered last
    link            \* the :link handed to name-cell for that row

modalVars  == <<raw, name, classes, invalid, createCalls, displayCalls, applied, event>>
reportVars == <<classId, pageState, row, link>>
vars       == <<raw, name, classes, invalid, createCalls, displayCalls, applied, event,
                classId, pageState, row, link>>

\* ------------------------------------------------------------------ bounds
MaxLen   == 2      \* longest candidate name the duplicate check is tried on
MaxCalls == 2      \* most createClass calls, and most displayModal calls, in a run

\* ----------------------------------------------------------------- strings
Chars == {"a", "A", " "}

Strings == UNION {[1..n -> Chars] : n \in 0..MaxLen}

\* the texts the user types into the text box
TypedTexts ==
    { <<>>, <<" ">>, <<"a">>, <<"A", " ">>, <<" ", "a">>, <<"a", "a">>, <<"A", "a">> }

\* String.prototype.toUpperCase on one character
UpperChar(c) == IF c = "a" THEN "A" ELSE c

\* String.prototype.toUpperCase
toUpperCase(s) == [i \in 1..Len(s) |-> UpperChar(s[i])]

IsWhiteSpace(c) == c = " "

RECURSIVE TrimStart(_)
TrimStart(s) ==
    IF s # <<>> /\ IsWhiteSpace(Head(s)) THEN TrimStart(Tail(s)) ELSE s

RECURSIVE TrimEnd(_)
TrimEnd(s) ==
    IF s # <<>> /\ IsWhiteSpace(s[Len(s)]) THEN TrimEnd(SubSeq(s, 1, Len(s) - 1)) ELSE s

\* a v-model without the .trim modifier
NoTrim(s) == s

\* v-model.trim="name": the typed text with String.prototype.trim applied
vModelTrim(s) == TrimEnd(TrimStart(s))

\* --------------------------------------------------- class-creation modal
\* a findIndex whose callback compares the names as they are
findIndexCaseSensitive(cls, nm) ==
    IF \E i \in 1..Len(cls) : cls[i].name = nm
    THEN (CHOOSE i \in 1..Len(cls) :
              /\ cls[i].name = nm
              /\ \A j \in 1..(i - 1) : cls[j].name # nm) - 1
    ELSE -1

\* this.classes.findIndex(classroom =>
\*     classroom.name.toUpperCase() === this.name.toUpperCase())
\* the 0-based index of the first match, -1 when there is none
findIndex(cls, nm) ==
    IF \E i \in 1..Len(cls) : toUpperCase(cls[i].name) = toUpperCase(nm)
    THEN (CHOOSE i \in 1..Len(cls) :
              /\ toUpperCase(cls[i].name) = toUpperCase(nm)
              /\ \A j \in 1..(i - 1) : toUpperCase(cls[j].name) # toUpperCase(nm)) - 1
    ELSE -1

\* computed duplicateName, as a function of the two things it reads
duplicateNameOf(cls, nm) ==
    LET index == findIndex(cls, nm)
    IN  IF index = -1 THEN FALSE ELSE TRUE

\* computed: duplicateName()
duplicateName == duplicateNameOf(classes, name)

\* a render that re-evaluates the computed only when the draft name changed
RenderOnNameChange ==
    invalid' = IF name' # name THEN duplicateNameOf(classes', name') ELSE invalid

\* the re-render after a change: <core-textbox :invalid="duplicateName">
Render == invalid' = duplicateNameOf(classes', name')

\* this.createClass(n): the bound vuex action is called with n
createClass(n) == createCalls' = Append(createCalls, n)

\* this.displayModal(v): the bound vuex action is called with v
displayModal(v) == displayCalls' = Append(displayCalls, v)

\* a createNewClass whose test lost its negation
createNewClassInverted ==
    /\ IF duplicateName
          THEN createClass(name)
          ELSE UNCHANGED createCalls
    /\ UNCHANGED <<displayCalls, name, raw, classes, applied>>

\* a createNewClass without the duplicate test
createNewClassUnchecked ==
    /\ createClass(name)
    /\ UNCHANGED <<displayCalls, name, raw, classes, applied>>

\* methods: createNewClass()
createNewClass ==
    /\ IF ~duplicateName
          THEN createClass(name)
          ELSE UNCHANGED createCalls
    /\ UNCHANGED <<displayCalls, name, raw, classes, applied>>

\* a close that asks for the modal to be shown
closeShows ==
    /\ displayModal(TRUE)
    /\ UNCHANGED <<createCalls, name, raw, classes, applied>>

\* a close that does nothing while the draft is a duplicate
closeUnlessDuplicate ==
    /\ IF duplicateName THEN UNCHANGED displayCalls ELSE displayModal(FALSE)
    /\ UNCHANGED <<createCalls, name, raw, classes, applied>>

\* methods: close()
close ==
    /\ displayModal(FALSE)
    /\ UNCHANGED <<createCalls, name, raw, classes, applied>>

\* the user types text r into the text box
Input(r) ==
    /\ raw' = r
    /\ name' = vModelTrim(r)
    /\ event' = "input"
    /\ UNCHANGED <<classes, createCalls, displayCalls, applied>>
    /\ Render
    /\ UNCHANGED reportVars

\* <form @submit.prevent="createNewClass">
Submit ==
    /\ Len(createCalls) < MaxCalls
    /\ createNewClass
    /\ event' = "submit"
    /\ Render
    /\ UNCHANGED reportVars

\* <icon-button class="undo-btn" @click="close">
CancelClick ==
    /\ Len(displayCalls) < MaxCalls
    /\ close
    /\ event' = "click"
    /\ Render
    /\ UNCHANGED reportVars

\* <core-modal @cancel="close">
ModalCancel ==
    /\ Len(displayCalls) < MaxCalls
    /\ close
    /\ event' = "cancel"
    /\ Render
    /\ UNCHANGED reportVars

\* the store carries out the oldest pending createClass call: the new
\* classroom joins the list and the classes prop is refreshed
StoreAddClass ==
    /\ applied < Len(createCalls)
    /\ classes' = Append(classes, [name |-> createCalls[applied + 1]])
    /\ applied' = applied + 1
    /\ event' = "store"
    /\ UNCHANGED <<raw, name, createCalls, displayCalls>>
    /\ Render
    /\ UNCHANGED reportVars

Classroom(s) == [name |-> s]

\* the classroom lists the modal is mounted with
InitialClasses ==
    { <<>>,
      <<Classroom(<<"A", "a">>)>>,
      <<Classroom(<<"a">>), Classroom(<<"A", "A">>)>> }

\* ------------------------------------------------------ item-list report
TOPIC                    == "topic"
ContentNodeKinds         == {"topic", "exercise", "video"}
TOPIC_ITEM_LIST          == "TOPIC_ITEM_LIST"
TOPIC_LEARNERS_FOR_ITEM  == "TOPIC_LEARNERS_FOR_ITEM"

ClassIds   == {"class1", "class2", "class3"}
ChannelIds == {"channel1", "channel2", "channel3"}
RowIds     == {"node1", "node2", "node3", "node4"}

\* reportGetters.standardDataTable: the rows of the table
standardDataTable == [id : RowIds, kind : ContentNodeKinds]

\* a genRowLink that hands every row's id over as contentId
genRowLinkNoTopic(r) ==
    [name   |-> TOPIC_LEARNERS_FOR_ITEM,
     params |-> [classId   |-> classId,
                 channelId |-> pageState.channelId,
                 contentId |-> r.id]]

\* methods: genRowLink(row)
genRowLink(r) ==
    IF r.kind = TOPIC
    THEN [name   |-> TOPIC_ITEM_LIST,
          params |-> [classId   |-> classId,
                      channelId |-> pageState.channelId,
                      topicId   |-> r.id]]
    ELSE [name   |-> TOPIC_LEARNERS_FOR_ITEM,
          params |-> [classId   |-> classId,
                      channelId |-> pageState.channelId,
                      contentId |-> r.id]]

\* <name-cell :link="genRowLink(row)"> for one row of the v-for
RenderRow(r) ==
    /\ row' = r
    /\ link' = genRowLink(r)
    /\ UNCHANGED <<classId, pageState>>
    /\ UNCHANGED modalVars

\* --------------------------------------------------------- specifications
ModalMounted ==
    /\ raw = <<>>
    /\ name = <<>>
    /\ classes \in InitialClasses
    /\ invalid = duplicateNameOf(classes, name)
    /\ createCalls = <<>>
    /\ displayCalls = <<>>
    /\ applied = 0
    /\ event = "mounted"

Init ==
    /\ ModalMounted
    /\ classId = "class1"
    /\ pageState = [channelId |-> "channel1"]
    /\ row = [id |-> "node1", kind |-> TOPIC]
    /\ link = genRowLink(row)

Next ==
    \/ \E r \in TypedTexts : Input(r)
    \/ Submit
    \/ CancelClick
    \/ ModalCancel
    \/ StoreAddClass

Spec == Init /\ [][Next]_vars

ReportInit ==
    /\ raw = <<>>
    /\ name = <<>>
    /\ classes = <<>>
    /\ invalid = FALSE
    /\ createCalls = <<>>
    /\ displayCalls = <<>>
    /\ applied = 0
    /\ event = "mounted"
    /\ classId \in ClassIds
    /\ pageState \in [channelId : ChannelIds]
    /\ row = [id |-> "node1", kind |-> TOPIC]
    /\ link = genRowLink(row)

ReportNext == \E r \in standardDataTable : RenderRow(r)

SpecReport == ReportInit /\ [][ReportNext]_vars

\* ------------------------------------------------------------ properties
ComponentEvents == {"input", "submit", "click", "cancel"}

\* s and t have the same length and differ at most in the case of letters
SameIgnoringCase(s, t) ==
    /\ Len(s) = Len(t)
    /\ \A i \in 1..Len(s) : s[i] = t[i] \/ {s[i], t[i]} = {"a", "A"}

\* some classroom of cls is named nm, up to the case of letters
IsDuplicateIgnoringCase(cls, nm) ==
    \E i \in 1..Len(cls) : SameIgnoringCase(cls[i].name, nm)

Spaces(n) == [i \in 1..n |-> " "]

\* t is r without its leading and trailing white space, nothing else changed
IsTrimOf(t, r) ==
    /\ t = <<>> \/ (t[1] # " " /\ t[Len(t)] # " ")
    /\ \E i, j \in 0..Len(r) : r = Spaces(i) \o t \o Spaces(j)

C2_DuplicateSubmitDoesNothing ==
    [][(event' = "submit" /\ IsDuplicateIgnoringCase(classes, name))
          => UNCHANGED <<createCalls, displayCalls, name, classes>>]_vars

C2_Witness ==
    /\ event = "submit"
    /\ name = <<"a", "a">>
    /\ classes = <<Classroom(<<"A", "a">>)>>
    /\ createCalls = <<>>
    /\ displayCalls = <<>>

\* C3: for the current list and every candidate name, duplicateName is true
\* exactly when some classroom's name matches the candidate up to case, with
\* no other normalisation; it is false for the empty list
C3_DuplicateIffCaseInsensitiveMatch ==
    /\ \A n \in Strings :
          duplicateNameOf(classes, n) <=> IsDuplicateIgnoringCase(classes, n)
    /\ \A n \in Strings : ~duplicateNameOf(<<>>, n)
    /\ duplicateName <=>
          \E i \in 1..Len(classes) : toUpperCase(classes[i].name) = toUpperCase(name)

C3_Witness ==
    /\ duplicateName
    /\ \A i \in 1..Len(classes) : classes[i].name # name
    /\ ~duplicateNameOf(classes, raw)
    /\ raw # name

\* C4: a cancel, from the button or from the modal shell, issues exactly one
\* displayModal(false) and no createClass, whatever the draft is
C4_CancelHidesAndNeverCreates ==
    [][event' \in {"click", "cancel"}
          => /\ displayCalls' = Append(displayCalls, FALSE)
             /\ createCalls' = createCalls]_vars

C4_Witness ==
    /\ event = "cancel"
    /\ duplicateName
    /\ Len(displayCalls) = 2
    /\ createCalls = <<>>

\* C5: no two classrooms of the list share a name up to case
C5_NoTwoClassroomsShareName ==
    \A i, j \in 1..Len(classes) :
        i # j => ~SameIgnoringCase(classes[i].name, classes[j].name)

\* C6: genRowLink gives the topic descriptor (topicId = row.id, no contentId)
\* exactly for rows of kind TOPIC and the learners descriptor (contentId =
\* row.id, no topicId) otherwise, carries classId and channelId through, and
\* changes no state
C6_RowLinkByKind ==
    [][/\ (link'.name = TOPIC_ITEM_LIST) <=> (row'.kind = TOPIC)
       /\ row'.kind = TOPIC =>
             /\ link'.name = TOPIC_ITEM_LIST
             /\ DOMAIN link'.params = {"classId", "channelId", "topicId"}
             /\ link'.params.topicId = row'.id
       /\ row'.kind # TOPIC =>
             /\ link'.name = TOPIC_LEARNERS_FOR_ITEM
             /\ DOMAIN link'.params = {"classId", "channelId", "contentId"}
             /\ link'.params.contentId = row'.id
       /\ link'.params.classId = classId
       /\ link'.params.channelId = pageState.channelId
       /\ UNCHANGED <<classId, pageState>>]_vars

C6_Witness ==
    /\ row = [id |-> "node2", kind |-> TOPIC]
    /\ link.name = TOPIC_ITEM_LIST
    /\ link.params.topicId = "node2"
    /\ classId = "class3"
    /\ pageState.channelId = "channel2"

\* C7: the draft name is always the typed text without its leading and
\* trailing white space, case preserved; a createClass call made by a submit
\* carries exactly that draft name, and it is that value the duplicate check
\* was made on
C7_CreateCarriesTrimmedDraft ==
    [][/\ IsTrimOf(name', raw')
       /\ (event' = "submit" /\ createCalls' # createCalls)
             => /\ createCalls' = Append(createCalls, name)
                /\ IsTrimOf(name, raw)
                /\ ~IsDuplicateIgnoringCase(classes, name)]_vars

C7_Witness ==
    /\ event = "submit"
    /\ raw = <<" ", "a">>
    /\ createCalls = << <<"a">> >>

\* C8: every displayModal call of the modal has the argument false, and no
\* event handled by the modal changes the classroom list
C8_OnlyHidesAndNeverTouchesList ==
    [][/\ event' \in ComponentEvents => classes' = classes
       /\ \A i \in 1..Len(displayCalls') : displayCalls'[i] = FALSE]_vars

C8_Witness ==
    /\ event = "cancel"
    /\ displayCalls = <<FALSE, FALSE>>
    /\ Len(createCalls) = 1
    /\ Len(classes) = 3

\* C9: the invalid flag handed to the text box always equals duplicateName
\* of the current draft against the current list
C9_InvalidFlagIsDuplicateName ==
    invalid = duplicateName

C9_Witness ==
    /\ invalid
    /\ event = "store"
    /\ raw = <<"A", " ">>
    /\ classes = <<Classroom(<<"a">>)>>

\* C10: createClass is never called with the empty name
C10_NeverCreatesWithEmptyName ==
    \A i \in 1..Len(createCalls) : createCalls[i] # <<>>

====
